---- MODULE Spec2Model ----
(***************************************************************************)
(* Lifecycle of iceoryx2's SampleMut (src/iceoryx2/src/sample_mut.rs): a   *)
(* loaned chunk of a publisher's data segment, held by one handle that is  *)
(* written, then sent or dropped.  The publisher (PublishMgmt), the raw    *)
(* sample pointer (RawSampleMut) and PointerOffset are collaborators whose *)
(* code lives outside this file; the model records every call the handle   *)
(* makes into them.                                                        *)
(***************************************************************************)
EXTENDS Integers, Sequences, FiniteSets

\* ------------------------------------------------------------------ bounds
MaxHandles == 2

NumChunks == 2

MaxValue == 1

MaxReceivers == 3

HandleIds == 1..MaxHandles

\* The publisher every handle of the model is loaned from, and its port id.
Publisher == "publisher"

\* PointerOffset values the publisher's allocator hands out.
Offsets == 0..(NumChunks - 1)

\* MessageType values.
Values == 1..MaxValue

\* ------------------------------------------------------------------ state
VARIABLES
    samples,    \* handle id -> <<the SampleMut value>> while the handle lives, else <<>>
    status,     \* handle id -> "none" (not yet loaned), "live", "sent", "dropped"
    result,     \* handle id -> <<>> or <<what send returned to the caller>>
    loans,      \* handle id -> <<>> or <<the arguments the loan path gave to new>>
    calls,      \* handle id -> the calls the handle made into its publisher, in order
    lastOp      \* the last operation of the interface, the type it was called on, its result

vars == <<samples, status, result, loans, calls, lastOp>>

\* The two instantiations of the type parameter M of SampleMut<M>.
Uninitialized == "MaybeUninit<MessageType>"

Initialized == "MessageType"

Unit == [unit |-> TRUE]

\* ------------------------------------------------- collaborators (not in src)
\* iceoryx2_cal PointerOffset: a wrapper around the offset value.
PointerOffset(v) == [value |-> v]

\* PointerOffset::value(): the wrapped usize.
value(offset) == offset.value

\* RawSampleMut<Header, M>: the header and the payload storage of the chunk.
\* The payload storage is <<>> while no value was written into it.
RawSampleMut(hdr, data) == [header |-> hdr, payload |-> data]

\* The header the loan path writes into the chunk.
Header(time_stamp, publisher_id) == [time_stamp |-> time_stamp, publisher_id |-> publisher_id]

as_header_ref(ptr) == ptr.header

as_data_ref(ptr) == ptr.payload

\* as_data_mut() followed by the store the caller makes through the reference;
\* w = <<>> is a caller that stores nothing.
as_data_mut(ptr, w) == IF w = <<>> THEN ptr ELSE [ptr EXCEPT !.payload = w]

Ok(n) == [tag |-> "Ok", count |-> n]

Err(e) == [tag |-> "Err", error |-> e]

ConnectionFailure == "ConnectionFailure"

\* PublishMgmt::send_impl: the delivery collaborator.  Over a transport that
\* cannot be reached the delivery fails structurally; otherwise it returns how
\* many receivers took the chunk: a receiver that rejects it only lowers the
\* count, and with no receiver connected the count is 0 (the module's example,
\* lines 13-35, sends from a publisher without subscribers and expects Ok).
send_impl(connected, rejecting, reachable) ==
    IF ~reachable
    THEN Err(ConnectionFailure)
    ELSE Ok(connected - rejecting)

\* The states the publisher's connections can be in when send_impl is called:
\* how many receivers are connected, how many of them reject the chunk, and
\* whether the transport can be reached (if not, no receiver gets to reject).
Connections ==
    {c \in [connected : 0..MaxReceivers, rejecting : 0..MaxReceivers, reachable : BOOLEAN] :
        /\ c.rejecting <= c.connected
        /\ ~c.reachable => c.rejecting = 0}

\* Everything send_impl can return, over the states of the connections.
SendOutcomes ==
    {send_impl(c.connected, c.rejecting, c.reachable) : c \in Connections}

\* The record of one call PublishMgmt::return_loaned_sample(offset).
ReclaimCall(h, s) ==
    [op |-> "return_loaned_sample", publisher |-> s.publisher,
     arg |-> s.offset_to_chunk, handle |-> h, ret |-> Unit]

\* The record of one call PublishMgmt::send_impl(address) and its outcome.
DeliverCall(h, s, addr, r) ==
    [op |-> "send_impl", publisher |-> s.publisher,
     arg |-> addr, handle |-> h, ret |-> r]

\* ------------------------------------------------------------------ helpers
Live(h) == status[h] = "live"

Sample(h) == samples[h][1]

\* The next unused handle id (ids are given out in order).
NextId == Cardinality({h \in HandleIds : status[h] # "none"}) + 1

\* The return_loaned_sample calls handle h made.
Reclaims(h) == SelectSeq(calls[h], LAMBDA c : c.op = "return_loaned_sample")

\* The send_impl calls handle h made.
Delivers(h) == SelectSeq(calls[h], LAMBDA c : c.op = "send_impl")

Op(name, h, ret) == [op |-> name, handle |-> h, M |-> Sample(h).M, ret |-> ret]

\* send as the last operation: what it returned, and the state of the
\* connections it met.
SendOp(h, ret, conn) ==
    [op |-> "send", handle |-> h, M |-> Sample(h).M, ret |-> ret, conn |-> conn]

\* ------------------------------------------------------------------ Init
Init ==
    /\ samples = [h \in HandleIds |-> <<>>]
    /\ status = [h \in HandleIds |-> "none"]
    /\ result = [h \in HandleIds |-> <<>>]
    /\ loans = [h \in HandleIds |-> <<>>]
    /\ calls = [h \in HandleIds |-> <<>>]
    /\ lastOp = [op |-> "init", handle |-> 0, M |-> Uninitialized, ret |-> Unit]

\* ------------------------------------------------------------------ operations
\* SampleMut::new: the struct built from the three arguments, of type
\* SampleMut<MaybeUninit<MessageType>>.  initBy is history: the operation that
\* turned M into MessageType.
new(publisher, ptr, offset_to_chunk) ==
    [publisher |-> publisher, ptr |-> ptr, offset_to_chunk |-> offset_to_chunk,
     M |-> Uninitialized, initBy |-> "none"]

\* Publisher::loan_uninit: takes a chunk no live handle of the publisher
\* holds, writes the header and wraps it with SampleMut::new.
Loan(o) ==
    /\ NextId <= MaxHandles
    /\ \A g \in HandleIds : Live(g) => Sample(g).offset_to_chunk # PointerOffset(o)
    /\ LET h == NextId
           s == new(Publisher, RawSampleMut(Header(h, Publisher), <<>>), PointerOffset(o))
       IN /\ samples' = [samples EXCEPT ![h] = <<s>>]
          /\ status' = [status EXCEPT ![h] = "live"]
          /\ loans' = [loans EXCEPT ![h] = <<[publisher |-> Publisher, offset |-> PointerOffset(o)]>>]
          /\ lastOp' = [op |-> "loan", handle |-> h, M |-> Uninitialized, ret |-> Unit]
    /\ UNCHANGED <<result, calls>>

\* PayloadMgmt::offset_to_chunk
offset_to_chunk(h) ==
    /\ Live(h)
    /\ lastOp' = Op("offset_to_chunk", h, Sample(h).offset_to_chunk)
    /\ UNCHANGED <<samples, status, result, loans, calls>>

\* write_payload as it would be if it reinterpreted the handle without storing.
write_payload_without_store(h, v) ==
    /\ Live(h)
    /\ Sample(h).M = Uninitialized
    /\ samples' = [samples EXCEPT ![h] =
                     <<[Sample(h) EXCEPT !.M = Initialized, !.initBy = "write_payload"]>>]
    /\ lastOp' = Op("write_payload", h, Unit)
    /\ UNCHANGED <<status, result, loans, calls>>

\* write_payload as it would be if the handle it returns pointed at the
\* neighbouring chunk.
write_payload_other_offset(h, v) ==
    /\ Live(h)
    /\ Sample(h).M = Uninitialized
    /\ samples' = [samples EXCEPT ![h] =
                     <<[Sample(h) EXCEPT !.ptr = as_data_mut(@, <<v>>),
                                         !.offset_to_chunk = PointerOffset((value(@) + 1) % NumChunks),
                                         !.M = Initialized,
                                         !.initBy = "write_payload"]>>]
    /\ lastOp' = Op("write_payload", h, Unit)
    /\ UNCHANGED <<status, result, loans, calls>>

\* write_payload as it would be if it built the Initialized handle from a
\* borrowed self, leaving the Uninitialized handle alive next to it.
write_payload_keeps_self(h, v) ==
    /\ Live(h)
    /\ Sample(h).M = Uninitialized
    /\ NextId <= MaxHandles
    /\ samples' = [samples EXCEPT ![h] = <<[Sample(h) EXCEPT !.ptr = as_data_mut(@, <<v>>)]>>,
                                  ![NextId] =
                     <<[Sample(h) EXCEPT !.ptr = as_data_mut(@, <<v>>),
                                         !.M = Initialized,
                                         !.initBy = "write_payload"]>>]
    /\ status' = [status EXCEPT ![NextId] = "live"]
    /\ loans' = [loans EXCEPT ![NextId] = loans[h]]
    /\ lastOp' = Op("write_payload", h, Unit)
    /\ UNCHANGED <<result, calls>>

\* write_payload as it would be if it built the Initialized handle field by
\* field and let the consumed self run its destructor.
write_payload_drops_self(h, v) ==
    /\ Live(h)
    /\ Sample(h).M = Uninitialized
    /\ samples' = [samples EXCEPT ![h] =
                     <<[Sample(h) EXCEPT !.ptr = as_data_mut(@, <<v>>),
                                         !.M = Initialized,
                                         !.initBy = "write_payload"]>>]
    /\ calls' = [calls EXCEPT ![h] = Append(@, ReclaimCall(h, Sample(h)))]
    /\ lastOp' = Op("write_payload", h, Unit)
    /\ UNCHANGED <<status, result, loans>>

\* UninitPayloadMut::write_payload: stores the value through payload_mut(),
\* then assume_init() reinterprets the same struct as SampleMut<MessageType>.
write_payload(h, v) ==
    /\ Live(h)
    /\ Sample(h).M = Uninitialized
    /\ samples' = [samples EXCEPT ![h] =
                     <<[Sample(h) EXCEPT !.ptr = as_data_mut(@, <<v>>),
                                         !.M = Initialized,
                                         !.initBy = "write_payload"]>>]
    /\ lastOp' = Op("write_payload", h, Unit)
    /\ UNCHANGED <<status, result, loans, calls>>

\* UninitPayloadMut::assume_init (unsafe): the transmute alone, no store.
assume_init(h) ==
    /\ Live(h)
    /\ Sample(h).M = Uninitialized
    /\ samples' = [samples EXCEPT ![h] =
                     <<[Sample(h) EXCEPT !.M = Initialized, !.initBy = "assume_init"]>>]
    /\ lastOp' = Op("assume_init", h, Unit)
    /\ UNCHANGED <<status, result, loans, calls>>

\* PayloadMut::header, implemented for every M.
header(h) ==
    /\ Live(h)
    /\ lastOp' = Op("header", h, as_header_ref(Sample(h).ptr))
    /\ UNCHANGED <<samples, status, result, loans, calls>>

\* What is seen through a reference of type &M to the payload storage: the
\* storage as it is, but through &MessageType storage nothing was written to
\* (assume_init without a store) is read as some arbitrary value.
Deref(M, storage) ==
    IF M = Initialized /\ storage = <<>>
    THEN {<<g>> : g \in Values}
    ELSE {storage}

\* payload as it would be if it handed out &MessageType in either state.
payload_always_typed(h) ==
    /\ Live(h)
    /\ \E data \in Deref(Initialized, as_data_ref(Sample(h).ptr)) :
         lastOp' = Op("payload", h, [view |-> Initialized, data |-> data])
    /\ UNCHANGED <<samples, status, result, loans, calls>>

\* PayloadMut::payload, implemented for every M: a reference of type &M to
\* the payload storage.
payload(h) ==
    /\ Live(h)
    /\ \E data \in Deref(Sample(h).M, as_data_ref(Sample(h).ptr)) :
         lastOp' = Op("payload", h, [view |-> Sample(h).M, data |-> data])
    /\ UNCHANGED <<samples, status, result, loans, calls>>

\* payload_mut as it would be if a store through the reference marked the
\* handle initialized.
payload_mut_marks_init(h, w) ==
    /\ Live(h)
    /\ samples' = [samples EXCEPT ![h] =
                     <<[Sample(h) EXCEPT !.ptr = as_data_mut(@, w),
                                         !.M = IF w = <<>> THEN @ ELSE Initialized]>>]
    /\ lastOp' = Op("payload_mut", h, [view |-> Sample(h).M, data |-> w])
    /\ UNCHANGED <<status, result, loans, calls>>

\* payload_mut as it would be if the reference it hands out began at the
\* header, so that a store overwrote the time stamp.
payload_mut_over_header(h, w) ==
    /\ Live(h)
    /\ samples' = [samples EXCEPT ![h] =
                     <<[Sample(h) EXCEPT !.ptr = IF w = <<>> THEN @
                                                 ELSE [@ EXCEPT !.header.time_stamp = w[1] + MaxHandles]]>>]
    /\ lastOp' = Op("payload_mut", h, [view |-> Sample(h).M, data |-> w])
    /\ UNCHANGED <<status, result, loans, calls>>

\* PayloadMut::payload_mut, implemented for every M: a reference of type
\* &mut M, through which the caller may store w.
payload_mut(h, w) ==
    /\ Live(h)
    /\ samples' = [samples EXCEPT ![h] = <<[Sample(h) EXCEPT !.ptr = as_data_mut(@, w)]>>]
    /\ lastOp' = Op("payload_mut", h, [view |-> Sample(h).M, data |-> w])
    /\ UNCHANGED <<status, result, loans, calls>>

\* drop as it would be if the destructor forgot the return_loaned_sample call.
drop_without_return(h) ==
    /\ Live(h)
    /\ samples' = [samples EXCEPT ![h] = <<>>]
    /\ status' = [status EXCEPT ![h] = "dropped"]
    /\ lastOp' = Op("drop", h, Unit)
    /\ UNCHANGED <<result, loans, calls>>

\* drop as it would be if it returned the neighbouring chunk instead of its own.
drop_other_offset(h) ==
    /\ Live(h)
    /\ calls' = [calls EXCEPT ![h] =
                   Append(@, ReclaimCall(h, [Sample(h) EXCEPT !.offset_to_chunk =
                                 PointerOffset((value(@) + 1) % NumChunks)]))]
    /\ samples' = [samples EXCEPT ![h] = <<>>]
    /\ status' = [status EXCEPT ![h] = "dropped"]
    /\ lastOp' = Op("drop", h, Unit)
    /\ UNCHANGED <<result, loans>>

\* drop as it would be if the destructor could run again on a handle that
\* was already sent or dropped.
drop_again(h) ==
    /\ status[h] # "none"
    /\ calls' = [calls EXCEPT ![h] =
                   Append(@, ReclaimCall(h, [publisher |-> loans[h][1].publisher,
                                             offset_to_chunk |-> loans[h][1].offset]))]
    /\ samples' = [samples EXCEPT ![h] = <<>>]
    /\ status' = [status EXCEPT ![h] = "dropped"]
    /\ lastOp' = [op |-> "drop", handle |-> h,
                  M |-> IF Live(h) THEN Sample(h).M ELSE Initialized, ret |-> Unit]
    /\ UNCHANGED <<result, loans>>

\* impl Drop for SampleMut: a handle that goes out of scope returns its chunk.
drop(h) ==
    /\ Live(h)
    /\ calls' = [calls EXCEPT ![h] = Append(@, ReclaimCall(h, Sample(h)))]
    /\ samples' = [samples EXCEPT ![h] = <<>>]
    /\ status' = [status EXCEPT ![h] = "dropped"]
    /\ lastOp' = Op("drop", h, Unit)
    /\ UNCHANGED <<result, loans>>

\* send as it would be if it forgot self after send_impl (no destructor run).
send_forget(h, conn) ==
    /\ Live(h)
    /\ LET r == send_impl(conn.connected, conn.rejecting, conn.reachable)
       IN /\ calls' = [calls EXCEPT ![h] =
                         Append(@, DeliverCall(h, Sample(h), value(Sample(h).offset_to_chunk), r))]
          /\ result' = [result EXCEPT ![h] = <<r>>]
          /\ lastOp' = SendOp(h, r, conn)
          /\ samples' = [samples EXCEPT ![h] = <<>>]
          /\ status' = [status EXCEPT ![h] = "sent"]
          /\ UNCHANGED <<loans>>

\* send as it would be if it passed the neighbouring chunk's offset.
send_other_offset(h, conn) ==
    /\ Live(h)
    /\ LET r == send_impl(conn.connected, conn.rejecting, conn.reachable)
       IN /\ calls' = [calls EXCEPT ![h] =
                         @ \o <<DeliverCall(h, Sample(h), (value(Sample(h).offset_to_chunk) + 1) % NumChunks, r),
                                ReclaimCall(h, Sample(h))>>]
          /\ result' = [result EXCEPT ![h] = <<r>>]
          /\ lastOp' = SendOp(h, r, conn)
          /\ samples' = [samples EXCEPT ![h] = <<>>]
          /\ status' = [status EXCEPT ![h] = "sent"]
          /\ UNCHANGED <<loans>>

\* send as it would be if it tried once more after a ConnectionFailure.
send_retry(h, conn) ==
    /\ Live(h)
    /\ LET r == send_impl(conn.connected, conn.rejecting, conn.reachable)
       IN /\ calls' = [calls EXCEPT ![h] =
                         @ \o (IF r = Err(ConnectionFailure)
                               THEN <<DeliverCall(h, Sample(h), value(Sample(h).offset_to_chunk), r)>>
                               ELSE <<>>)
                           \o <<DeliverCall(h, Sample(h), value(Sample(h).offset_to_chunk), r),
                                ReclaimCall(h, Sample(h))>>]
          /\ result' = [result EXCEPT ![h] = <<r>>]
          /\ lastOp' = SendOp(h, r, conn)
          /\ samples' = [samples EXCEPT ![h] = <<>>]
          /\ status' = [status EXCEPT ![h] = "sent"]
          /\ UNCHANGED <<loans>>

\* send as it would be if self were dropped before send_impl is called.
send_drop_first(h, conn) ==
    /\ Live(h)
    /\ LET r == send_impl(conn.connected, conn.rejecting, conn.reachable)
       IN /\ calls' = [calls EXCEPT ![h] =
                         @ \o <<ReclaimCall(h, Sample(h)),
                                DeliverCall(h, Sample(h), value(Sample(h).offset_to_chunk), r)>>]
          /\ result' = [result EXCEPT ![h] = <<r>>]
          /\ lastOp' = SendOp(h, r, conn)
          /\ samples' = [samples EXCEPT ![h] = <<>>]
          /\ status' = [status EXCEPT ![h] = "sent"]
          /\ UNCHANGED <<loans>>

\* send as it would be if it reported the connected receivers, not the ones
\* that accepted the sample.
send_counts_connected(h, conn) ==
    /\ Live(h)
    /\ LET r == IF send_impl(conn.connected, conn.rejecting, conn.reachable).tag = "Ok"
                THEN Ok(conn.connected)
                ELSE send_impl(conn.connected, conn.rejecting, conn.reachable)
       IN /\ calls' = [calls EXCEPT ![h] =
                         @ \o <<DeliverCall(h, Sample(h), value(Sample(h).offset_to_chunk), r),
                                ReclaimCall(h, Sample(h))>>]
          /\ result' = [result EXCEPT ![h] = <<r>>]
          /\ lastOp' = SendOp(h, r, conn)
          /\ samples' = [samples EXCEPT ![h] = <<>>]
          /\ status' = [status EXCEPT ![h] = "sent"]
          /\ UNCHANGED <<loans>>

\* send as it would be if it turned a ConnectionFailure into a delivery to
\* nobody.
send_swallows_failure(h, conn) ==
    /\ Live(h)
    /\ LET r == IF send_impl(conn.connected, conn.rejecting, conn.reachable).tag = "Err"
                THEN Ok(0)
                ELSE send_impl(conn.connected, conn.rejecting, conn.reachable)
       IN /\ calls' = [calls EXCEPT ![h] =
                         @ \o <<DeliverCall(h, Sample(h), value(Sample(h).offset_to_chunk), r),
                                ReclaimCall(h, Sample(h))>>]
          /\ result' = [result EXCEPT ![h] = <<r>>]
          /\ lastOp' = SendOp(h, r, conn)
          /\ samples' = [samples EXCEPT ![h] = <<>>]
          /\ status' = [status EXCEPT ![h] = "sent"]
          /\ UNCHANGED <<loans>>

\* PayloadMut::send, implemented for every M: calls send_impl with the offset
\* value and returns its outcome r, which send_impl decides from the state
\* conn of the connections; self was taken by value, so it goes out of scope
\* when send returns and its Drop runs.
send(h, conn) ==
    /\ Live(h)
    /\ LET r == send_impl(conn.connected, conn.rejecting, conn.reachable)
       IN /\ calls' = [calls EXCEPT ![h] =
                         @ \o <<DeliverCall(h, Sample(h), value(Sample(h).offset_to_chunk), r),
                                ReclaimCall(h, Sample(h))>>]
          /\ result' = [result EXCEPT ![h] = <<r>>]
          /\ lastOp' = SendOp(h, r, conn)
          /\ samples' = [samples EXCEPT ![h] = <<>>]
          /\ status' = [status EXCEPT ![h] = "sent"]
          /\ UNCHANGED <<loans>>

\* ------------------------------------------------------------------ Next
Next ==
    \/ \E o \in Offsets : Loan(o)
    \/ \E h \in HandleIds : offset_to_chunk(h)
    \/ \E h \in HandleIds, v \in Values : write_payload(h, v)
    \/ \E h \in HandleIds : assume_init(h)
    \/ \E h \in HandleIds : header(h)
    \/ \E h \in HandleIds : payload(h)
    \/ \E h \in HandleIds, w \in {<<>>} \cup {<<v>> : v \in Values} : payload_mut(h, w)
    \/ \E h \in HandleIds : drop(h)
    \/ \E h \in HandleIds, conn \in Connections : send(h, conn)

Spec == Init /\ [][Next]_vars

TypeOK ==
    /\ \A h \in HandleIds : status[h] \in {"none", "live", "sent", "dropped"}
    /\ \A h \in HandleIds : (status[h] = "live") <=> (samples[h] # <<>>)
    /\ \A h \in HandleIds : Live(h) => Sample(h).M \in {Uninitialized, Initialized}
    /\ \A h \in HandleIds : Len(calls[h]) <= 2

\* ------------------------------------------------------------------ claims
Ended(h) == status[h] \in {"sent", "dropped"}

\* The offset the loan path created handle h with.
LoanOffset(h) == loans[h][1].offset

\* C1 as stated: over its lifetime a handle invokes exactly one of reclaim
\* (return_loaned_sample) and deliver (send_impl), exactly once.
C1_ExactlyOneOfReclaimDeliver ==
    \A h \in HandleIds : Ended(h) => Len(Reclaims(h)) + Len(Delivers(h)) = 1

\* C1 amended: a handle invokes nothing while it lives; when its lifetime
\* has ended it has invoked reclaim exactly once, and deliver exactly once if
\* it ended by send (so a sent handle invoked both) and never if it was dropped.
C1_ReleaseAccounting ==
    \A h \in HandleIds :
        /\ ~Ended(h) => calls[h] = <<>>
        /\ status[h] = "dropped" => Len(Reclaims(h)) = 1 /\ Len(Delivers(h)) = 0 /\ Len(calls[h]) = 1
        /\ status[h] = "sent" => Len(Reclaims(h)) = 1 /\ Len(Delivers(h)) = 1 /\ Len(calls[h]) = 2

\* One handle was sent and another was dropped.
C1_Witness ==
    \E h, g \in HandleIds :
        /\ status[h] = "sent" /\ Len(calls[h]) = 2
        /\ status[g] = "dropped" /\ Len(calls[g]) = 1

\* C2 as stated: after send, no reclaim is invoked for the handle's offset,
\* whatever deliver returned.
C2_NoReclaimAfterSend ==
    \A h \in HandleIds : status[h] = "sent" => Len(Reclaims(h)) = 0

\* C2 amended: a sent handle has invoked reclaim exactly once, for the offset
\* it was created with, as its last call (after deliver), both when deliver
\* returned a count and when it returned ConnectionFailure; no reclaim follows.
C2_OneReclaimAfterSend ==
    \A h \in HandleIds :
        status[h] = "sent" =>
            /\ Len(Reclaims(h)) = 1
            /\ Reclaims(h)[1].arg = LoanOffset(h)
            /\ calls[h][Len(calls[h])].op = "return_loaned_sample"
            /\ calls[h][1].op = "send_impl"
            /\ calls[h][1].ret \in SendOutcomes

\* Two handles were sent, one delivered and one failed with ConnectionFailure.
C2_Witness ==
    \E h, g \in HandleIds :
        /\ status[h] = "sent" /\ result[h] # <<>> /\ result[h][1].tag = "Ok"
        /\ status[g] = "sent" /\ result[g] = <<Err(ConnectionFailure)>>
        /\ Len(Reclaims(h)) = 1 /\ Len(Reclaims(g)) = 1

\* C3: a handle dropped without send, Uninitialized or Initialized, made
\* exactly one reclaim call, carrying the offset it was created with, and no
\* deliver call.
C3_DropReclaimsOnce ==
    \A h \in HandleIds :
        status[h] = "dropped" =>
            /\ Len(Reclaims(h)) = 1
            /\ Reclaims(h)[1].arg = LoanOffset(h)
            /\ Reclaims(h)[1].publisher = loans[h][1].publisher
            /\ Delivers(h) = <<>>
            /\ result[h] = <<>>

\* Both handles were dropped, the last one in the Initialized state, from
\* different offsets.
C3_Witness ==
    /\ lastOp.op = "drop"
    /\ lastOp.M = Initialized
    /\ \E g \in HandleIds :
         /\ g # lastOp.handle
         /\ status[g] = "dropped"
         /\ LoanOffset(g) # LoanOffset(lastOp.handle)
         /\ Len(Reclaims(g)) = 1

\* C4 as stated: send is an operation of the Initialized state only, so
\* deliver is never invoked for a handle that is Uninitialized.
C4_SendOnlyWhenInitialized ==
    lastOp.op = "send" => lastOp.M = Initialized

\* C4 amended: send is an operation of both states.  A handle leaves the
\* Uninitialized state only by write_payload, assume_init, send or drop, and
\* deliver is invoked for a handle only by that handle's send.
C4_LeavesUninitializedOnlyBy ==
    [][\A h \in HandleIds :
        /\ (status[h] = "live" /\ samples[h][1].M = Uninitialized
              /\ ~(status'[h] = "live" /\ samples'[h][1].M = Uninitialized))
           => /\ lastOp'.handle = h
              /\ lastOp'.M = Uninitialized
              /\ lastOp'.op \in {"write_payload", "assume_init", "send", "drop"}
        /\ Len(Delivers(h))' > Len(Delivers(h))
           => lastOp'.handle = h /\ lastOp'.op = "send"]_vars

\* send was called on a handle still Uninitialized, and deliver was invoked.
C4_Witness ==
    /\ lastOp.op = "send"
    /\ lastOp.M = Uninitialized
    /\ status[lastOp.handle] = "sent"
    /\ Len(Delivers(lastOp.handle)) = 1

\* C5 as stated: a handle in the Initialized state was produced by
\* write_payload and has had its payload written.
C5_InitializedOnlyByWritePayload ==
    \A h \in HandleIds :
        (Live(h) /\ Sample(h).M = Initialized) =>
            Sample(h).initBy = "write_payload" /\ as_data_ref(Sample(h).ptr) # <<>>

\* C5 amended: write_payload and the unsafe assume_init are the only
\* transitions to Initialized; a handle write_payload produced has had its
\* payload written, a handle assume_init produced has only what was stored
\* before.
C5_InitializedByWriteOrAssume ==
    \A h \in HandleIds :
        Live(h) =>
            /\ Sample(h).M = Uninitialized <=> Sample(h).initBy = "none"
            /\ Sample(h).M = Initialized => Sample(h).initBy \in {"write_payload", "assume_init"}
            /\ Sample(h).initBy = "write_payload" => as_data_ref(Sample(h).ptr) # <<>>
            /\ (lastOp.op = "assume_init" /\ lastOp.handle = h /\ as_data_ref(Sample(h).ptr) = <<>>)
                   => Sample(h).initBy = "assume_init"

\* write_payload has just produced an Initialized handle whose payload is
\* the value written.
C5_Witness ==
    /\ lastOp.op = "write_payload"
    /\ Live(lastOp.handle)
    /\ Sample(lastOp.handle).M = Initialized
    /\ Sample(lastOp.handle).initBy = "write_payload"
    /\ as_data_ref(Sample(lastOp.handle).ptr) \in {<<v>> : v \in Values}

\* C6 as stated: payload() is not an operation of the Uninitialized state.
C6_PayloadOnlyWhenInitialized ==
    lastOp.op = "payload" => lastOp.M = Initialized

\* C6 amended: payload() is an operation of both states; on an Uninitialized
\* handle it yields a view of type MaybeUninit<MessageType> over the storage as
\* it is, a view of type MessageType is yielded only in the Initialized state,
\* and for a handle write_payload produced that view shows a written value.
C6_TypedViewOnlyWhenInitialized ==
    lastOp.op = "payload" =>
        /\ Live(lastOp.handle)
        /\ lastOp.M = Sample(lastOp.handle).M
        /\ lastOp.ret.view = Sample(lastOp.handle).M
        /\ lastOp.ret.view = Uninitialized => lastOp.ret.data = as_data_ref(Sample(lastOp.handle).ptr)
        /\ Sample(lastOp.handle).initBy = "write_payload" =>
              /\ lastOp.ret.data # <<>>
              /\ lastOp.ret.data = as_data_ref(Sample(lastOp.handle).ptr)

\* payload() was called on an Uninitialized handle nothing was written to.
C6_Witness ==
    /\ lastOp.op = "payload"
    /\ lastOp.M = Uninitialized
    /\ lastOp.ret.view = Uninitialized
    /\ lastOp.ret.data = <<>>

\* C7: the offset of a live handle is the offset it was created with, before
\* and after write_payload and after every accessor, and offset_to_chunk()
\* returns it.
C7_OffsetNeverChanges ==
    /\ \A h \in HandleIds : Live(h) => Sample(h).offset_to_chunk = LoanOffset(h)
    /\ lastOp.op = "offset_to_chunk" => lastOp.ret = LoanOffset(lastOp.handle)

\* offset_to_chunk() was called on a handle write_payload produced, loaned at
\* the last offset.
C7_Witness ==
    /\ lastOp.op = "offset_to_chunk"
    /\ lastOp.M = Initialized
    /\ Sample(lastOp.handle).initBy = "write_payload"
    /\ LoanOffset(lastOp.handle) = PointerOffset(NumChunks - 1)
    /\ lastOp.ret = PointerOffset(NumChunks - 1)

\* C8: every send_impl call carries the value of the offset the handle was
\* created with, and goes to the publisher the handle was loaned from.
C8_SendForwardsLoanOffset ==
    \A h \in HandleIds :
        \A i \in 1..Len(calls[h]) :
            calls[h][i].op = "send_impl" =>
                /\ calls[h][i].arg = value(LoanOffset(h))
                /\ calls[h][i].publisher = loans[h][1].publisher

\* Two handles loaned at different offsets were sent.
C8_Witness ==
    \E h, g \in HandleIds :
        /\ status[h] = "sent" /\ status[g] = "sent"
        /\ Len(Delivers(h)) = 1 /\ Len(Delivers(g)) = 1
        /\ Delivers(h)[1].arg = 0
        /\ Delivers(g)[1].arg = NumChunks - 1
        /\ Delivers(g)[1].arg # Delivers(h)[1].arg

\* C9: send calls deliver exactly once and what it returns to the caller is
\* what deliver returned, a count or ConnectionFailure; a handle not sent has
\* called deliver never.
C9_SendReturnsDeliverOutcome ==
    \A h \in HandleIds :
        /\ status[h] = "sent" =>
              /\ Len(Delivers(h)) = 1
              /\ result[h] = <<Delivers(h)[1].ret>>
        /\ status[h] # "sent" => Delivers(h) = <<>> /\ result[h] = <<>>
        /\ (lastOp.op = "send" /\ lastOp.handle = h) => result[h] = <<lastOp.ret>>

\* One send returned a delivered count, another returned ConnectionFailure.
C9_Witness ==
    \E h, g \in HandleIds :
        /\ status[h] = "sent" /\ result[h] = <<Ok(MaxReceivers)>>
        /\ Delivers(h)[1].ret = Ok(MaxReceivers)
        /\ status[g] = "sent" /\ result[g] = <<Err(ConnectionFailure)>>
        /\ Len(Delivers(g)) = 1

\* C10: no two live handles carry the same offset of the same publisher.
C10_OneHandlePerRegion ==
    \A h, g \in HandleIds :
        (h # g /\ Live(h) /\ Live(g)) =>
            ~(/\ Sample(h).publisher = Sample(g).publisher
              /\ Sample(h).offset_to_chunk = Sample(g).offset_to_chunk)

\* Two handles are live at once, one of them produced by write_payload.
C10_Witness ==
    \E h, g \in HandleIds :
        /\ h # g /\ Live(h) /\ Live(g)
        /\ Sample(h).initBy = "write_payload"
        /\ Sample(g).M = Uninitialized
        /\ lastOp.op = "write_payload"

\* C11: the lifecycle is monotonic.  Once a handle was sent or dropped no
\* operation acts on it any more: its status, its calls and its result stay
\* as they are and no operation names it; and a live handle that is
\* Initialized stays Initialized until it ends.
C11_LifecycleMonotonic ==
    [][\A h \in HandleIds :
        /\ Ended(h) =>
              /\ status'[h] = status[h]
              /\ samples'[h] = <<>>
              /\ calls'[h] = calls[h]
              /\ result'[h] = result[h]
              /\ lastOp' # lastOp => lastOp'.handle # h
        /\ (Live(h) /\ Sample(h).M = Initialized /\ status'[h] = "live")
              => samples'[h][1].M = Initialized
        /\ status[h] # "none" => status'[h] # "none"]_vars

\* One handle was sent, the other was dropped, after it had been written.
C11_Witness ==
    \E h, g \in HandleIds :
        /\ status[h] = "sent" /\ samples[h] = <<>>
        /\ status[g] = "dropped" /\ samples[g] = <<>>
        /\ lastOp.handle = g /\ lastOp.op = "drop" /\ lastOp.M = Initialized

\* The header the loan path wrote into the chunk of handle h.
LoanHeader(h) == Header(h, loans[h][1].publisher)

\* C12: the header of a live handle is the header written at loan time, in
\* the Uninitialized and in the Initialized state, whatever was stored into
\* the payload, and header() returns it.
C12_HeaderStable ==
    /\ \A h \in HandleIds : Live(h) => as_header_ref(Sample(h).ptr) = LoanHeader(h)
    /\ lastOp.op = "header" =>
          /\ lastOp.ret = LoanHeader(lastOp.handle)
          /\ lastOp.ret.time_stamp = lastOp.handle
          /\ lastOp.ret.publisher_id = Publisher

\* header() was called on the second handle after write_payload had made it
\* Initialized.
C12_Witness ==
    /\ lastOp.op = "header"
    /\ lastOp.handle = MaxHandles
    /\ lastOp.M = Initialized
    /\ Sample(lastOp.handle).initBy = "write_payload"
    /\ as_data_ref(Sample(lastOp.handle).ptr) # <<>>
    /\ lastOp.ret = Header(MaxHandles, Publisher)

\* C14: when send runs with at least one receiver connected over a reachable
\* transport, it returns Ok with the number of receivers that accepted the
\* sample (the connected ones less the rejecting ones), never an error, however
\* many of them rejected it.
C14_PartialDeliveryIsOk ==
    (/\ lastOp.op = "send"
     /\ lastOp.conn.reachable
     /\ lastOp.conn.connected >= 1)
        => /\ lastOp.ret = Ok(lastOp.conn.connected - lastOp.conn.rejecting)
           /\ result[lastOp.handle] = <<lastOp.ret>>

\* A send to MaxReceivers connected receivers over a reachable transport, of
\* which one rejected the sample and the others accepted it: send returned Ok
\* with the accepted count, which is what send_impl returned.
C14_Witness ==
    /\ lastOp.op = "send"
    /\ lastOp.conn.reachable
    /\ lastOp.conn.connected = MaxReceivers
    /\ lastOp.conn.rejecting = 1
    /\ 0 < lastOp.conn.rejecting /\ lastOp.conn.rejecting < lastOp.conn.connected
    /\ result[lastOp.handle] = <<Ok(MaxReceivers - 1)>>
    /\ Delivers(lastOp.handle)[1].ret = Ok(MaxReceivers - 1)

Accessors == {"header", "payload", "payload_mut", "offset_to_chunk"}

\* C16: header(), payload() and payload_mut() have no lifecycle effect.  A
\* step of one of them leaves every handle alive and in its state, with its
\* offset and publisher, invokes neither reclaim nor deliver and returns no
\* send result; payload_mut() on an Uninitialized handle leaves it
\* Uninitialized.
C16_AccessorsHaveNoLifecycleEffect ==
    [][lastOp'.op \in Accessors =>
        /\ status' = status
        /\ calls' = calls
        /\ result' = result
        /\ loans' = loans
        /\ \A h \in HandleIds :
              Live(h) =>
                 /\ samples'[h] # <<>>
                 /\ samples'[h][1].M = Sample(h).M
                 /\ samples'[h][1].initBy = Sample(h).initBy
                 /\ samples'[h][1].offset_to_chunk = Sample(h).offset_to_chunk
                 /\ samples'[h][1].publisher = Sample(h).publisher
                 /\ h # lastOp'.handle => samples'[h] = samples[h]]_vars

\* payload_mut() was called on an Uninitialized handle, a value was stored
\* through it, and the handle is still Uninitialized and has made no call.
C16_Witness ==
    /\ lastOp.op = "payload_mut"
    /\ lastOp.M = Uninitialized
    /\ lastOp.ret.data # <<>>
    /\ Live(lastOp.handle)
    /\ Sample(lastOp.handle).M = Uninitialized
    /\ as_data_ref(Sample(lastOp.handle).ptr) = lastOp.ret.data
    /\ calls[lastOp.handle] = <<>>

\* C17: the step from Uninitialized to Initialized releases nothing.
\* write_payload and assume_init invoke neither reclaim nor deliver, the
\* handle stays alive with the same publisher and offset, and it has made no
\* call yet: its release is still to come.
C17_TransitionReleasesNothing ==
    [][\A h \in HandleIds :
        (lastOp'.op \in {"write_payload", "assume_init"} /\ lastOp'.handle = h /\ lastOp' # lastOp)
           => /\ calls' = calls
              /\ calls'[h] = <<>>
              /\ result' = result
              /\ status' = status
              /\ status'[h] = "live"
              /\ samples'[h][1].M = Initialized
              /\ samples'[h][1].publisher = Sample(h).publisher
              /\ samples'[h][1].publisher = loans[h][1].publisher
              /\ samples'[h][1].offset_to_chunk = Sample(h).offset_to_chunk]_vars

\* assume_init has just made a handle Initialized; it is alive and has made
\* no call, while the other handle was dropped and made its one call.
C17_Witness ==
    /\ lastOp.op = "assume_init"
    /\ Live(lastOp.handle)
    /\ Sample(lastOp.handle).M = Initialized
    /\ calls[lastOp.handle] = <<>>
    /\ \E g \in HandleIds : g # lastOp.handle /\ status[g] = "dropped" /\ Len(calls[g]) = 1

\* C18: within one send the calls are ordered.  For a sent handle send_impl
\* comes first and return_loaned_sample after it, never before, for a
\* delivered count and for ConnectionFailure.
C18_DeliverBeforeReclaim ==
    \A h \in HandleIds :
        \A j \in 1..Len(calls[h]) :
            (status[h] = "sent" /\ calls[h][j].op = "return_loaned_sample") =>
                /\ \E i \in 1..(j - 1) : calls[h][i].op = "send_impl"
                /\ \A i \in (j + 1)..Len(calls[h]) : calls[h][i].op # "send_impl"

\* send has just failed with ConnectionFailure and made its two calls, and
\* another send had delivered.
C18_Witness ==
    /\ lastOp.op = "send"
    /\ lastOp.ret = Err(ConnectionFailure)
    /\ Len(calls[lastOp.handle]) = 2
    /\ calls[lastOp.handle][1].op = "send_impl"
    /\ calls[lastOp.handle][2].op = "return_loaned_sample"
    /\ \E g \in HandleIds : g # lastOp.handle /\ status[g] = "sent" /\ result[g][1].tag = "Ok"
====
